---------------------------- MODULE Spec2Model ----------------------------
(***************************************************************************)
(* A model of package date (Hunsin/date): the Date value type, its         *)
(* comparisons, its text form, its parsing through time.Parse, the         *)
(* sql.Scanner / encoding.TextUnmarshaler adapters and Date.Sub.           *)
(*                                                                         *)
(* The repository holds two revisions of the package:                      *)
(*   src/unnamed/part_000  (with Sub; UnmarshalText goes through Parse,    *)
(*                          Scan delegates to UnmarshalText)               *)
(*   src/date.go           (UnmarshalText parses into a local time.Time,   *)
(*                          Scan parses []byte itself)                     *)
(* Definitions without prefix model src/unnamed/part_000; the definitions  *)
(* prefixed DateGo_ model the two methods of src/date.go that differ.      *)
(*                                                                         *)
(* Text is a sequence of one-character strings.  A time.Parse layout is    *)
(* the sequence of chunks that time.nextStdChunk cuts it into: a standard  *)
(* element ("2006", "01", "02", "2", "Jan") or one literal character.      *)
(***************************************************************************)
EXTENDS Integers, Sequences, FiniteSets, TLC

VARIABLES
    d,      \* the Date the methods are called on (the receiver / target)
    pc,     \* "idle": no call made yet or result consumed; "done": a call returned
    last    \* the call that returned last: its name, inputs and results

vars == <<d, pc, last>>

---------------------------------------------------------------------------
(* Bounds of the inputs                                                    *)

\* months of the inputs run up to MaxMonth (13 is the first impossible one)
MaxMonth == 13
\* days of the inputs run up to MaxDay (32 is the first impossible one)
MaxDay == 32

---------------------------------------------------------------------------
(* type Date struct { Year int; Month time.Month; Day int }                *)

Date(y, m, dd) == [Year |-> y, Month |-> m, Day |-> dd]

\* Date{}: the zero value
ZeroDate == Date(0, 0, 0)

---------------------------------------------------------------------------
(* Comparison                                                              *)

AfterNoMonth(a, t) ==
    IF a.Year # t.Year THEN a.Year > t.Year ELSE a.Day > t.Day

\* func (d Date) After(t Date) bool
After(a, t) ==
    IF a.Year # t.Year THEN a.Year > t.Year
    ELSE IF a.Month # t.Month THEN a.Month > t.Month
    ELSE a.Day > t.Day

\* func (d Date) Before(t Date) bool
Before(a, t) == After(t, a)

\* func (d Date) Equal(t Date) bool
Equal(a, t) == ~After(a, t) /\ ~Before(a, t)

---------------------------------------------------------------------------
(* The calendar of package time, as far as Date uses it                    *)

\* time.isLeap
isLeap(y) == y % 4 = 0 /\ (y % 100 # 0 \/ y % 400 = 0)

\* time.daysIn(m, year), m in 1..12
daysIn(m, y) ==
    IF m = 2 THEN (IF isLeap(y) THEN 29 ELSE 28)
    ELSE IF m \in {4, 6, 9, 11} THEN 30 ELSE 31

\* time.daysBefore[m-1]: days of a non-leap year before month m, m in 1..12
daysBefore(m) ==
    <<0, 31, 59, 90, 120, 151, 181, 212, 243, 273, 304, 334>>[m]

\* days from 1 January of year 0 to 1 January of year y (time.daysSinceEpoch,
\* up to the constant offset of its epoch, which cancels in every difference)
daysSinceEpoch(y) ==
    365 * y + ((y - 1) \div 4) - ((y - 1) \div 100) + ((y - 1) \div 400)

\* time.Date(year, month, day, 0, 0, 0, 0, time.UTC), as the absolute day
\* number of the resulting midnight.  Month and day are normalised as
\* time.Date does it: the month overflows into the year (time.norm), the
\* day is added linearly.
TimeDate(y, m, dd) ==
    LET m0   == m - 1
        yy   == y + (m0 \div 12)
        mm   == (m0 % 12) + 1
        leap == IF isLeap(yy) /\ mm >= 3 THEN 1 ELSE 0
    IN  daysSinceEpoch(yy) + daysBefore(mm) + leap + (dd - 1)

\* a calendar date: what time.Parse accepts and what a time.Time decomposes to
IsValidDate(x) ==
    /\ x.Month \in 1..12
    /\ x.Day >= 1
    /\ x.Day <= daysIn(x.Month, x.Year)

---------------------------------------------------------------------------
(* Difference                                                              *)

\* math.MaxInt64 nanoseconds (time.maxDuration) in whole hours: the receiver
\* and the argument of Time.Sub below are midnights, so every exact duration
\* is a whole number of hours, and a Duration is modelled in hours.
maxDurationHours == 2562047

TimeSubOneSided(t, u) ==
    LET h == (t - u) * 24
    IN  IF h > maxDurationHours THEN maxDurationHours ELSE h

\* Time.Sub(u) Duration: the difference, saturated at maxDuration and
\* minDuration when it does not fit 64-bit nanoseconds.  2562047 h fit,
\* 2562048 h do not; the saturated values keep their whole hours.
TimeSub(t, u) ==
    LET h == (t - u) * 24
    IN  IF h > maxDurationHours THEN maxDurationHours
        ELSE IF h < -maxDurationHours THEN -maxDurationHours
        ELSE h

\* int(x / 24) for a Duration.Hours() x: Go's conversion truncates toward zero
HoursToDays(h) == IF h >= 0 THEN h \div 24 ELSE -((-h) \div 24)

\* func (d Date) Sub(t Date) int
Sub(a, t) ==
    LET dt == TimeDate(a.Year, a.Month, a.Day)
        tt == TimeDate(t.Year, t.Month, t.Day)
    IN  HoursToDays(TimeSub(dt, tt))

---------------------------------------------------------------------------
(* Text                                                                    *)

DigitChars == <<"0", "1", "2", "3", "4", "5", "6", "7", "8", "9">>

\* the decimal digits of n >= 0
RECURSIVE Digits(_)
Digits(n) ==
    IF n < 10 THEN <<DigitChars[n + 1]>>
    ELSE Digits(n \div 10) \o <<DigitChars[(n % 10) + 1]>>

RECURSIVE Repeat(_, _)
Repeat(c, n) == IF n <= 0 THEN <<>> ELSE <<c>> \o Repeat(c, n - 1)

\* the sign and digits fmt prints for the verb %d
Signed(n) == IF n < 0 THEN <<"-">> \o Digits(-n) ELSE Digits(n)

\* fmt's %<w>d: padded on the left with spaces to width w
FmtSpacePad(n, w) == Repeat(" ", w - Len(Signed(n))) \o Signed(n)

\* fmt's %0<w>d: padded with zeros, after the sign, to width w
FmtZeroPad(n, w) ==
    IF n < 0 THEN <<"-">> \o Repeat("0", w - 1 - Len(Digits(-n))) \o Digits(-n)
    ELSE Repeat("0", w - Len(Digits(n))) \o Digits(n)

\* func (d Date) String() string: fmt.Sprintf("%4d-%02d-%02d", ...)
String(x) ==
    FmtSpacePad(x.Year, 4) \o <<"-">> \o FmtZeroPad(x.Month, 2)
        \o <<"-">> \o FmtZeroPad(x.Day, 2)

\* an error value: nil, or what the error carries
nil == [kind |-> "nil", text |-> <<>>, msg |-> ""]

\* func (d Date) MarshalText() ([]byte, error)
MarshalText(x) == [b |-> String(x), err |-> nil]

\* func (d Date) Value() (driver.Value, error)
Value(x) == [v |-> String(x), err |-> nil]

---------------------------------------------------------------------------
(* time.Parse, for the layout elements the package and its tests use       *)

\* the layouts of UnmarshalText, in its order: "2006-01-02", "2006/01/02",
\* "02 Jan 2006"
LayoutISO   == <<"2006", "-", "01", "-", "02">>
LayoutSlash == <<"2006", "/", "01", "/", "02">>
LayoutDMY   == <<"02", " ", "Jan", " ", "2006">>
\* "Jan 2 2006", the third layout of TestParse
LayoutMDY   == <<"Jan", " ", "2", " ", "2006">>

\* time.shortMonthNames
shortMonthNames ==
    << <<"J","a","n">>, <<"F","e","b">>, <<"M","a","r">>, <<"A","p","r">>,
       <<"M","a","y">>, <<"J","u","n">>, <<"J","u","l">>, <<"A","u","g">>,
       <<"S","e","p">>, <<"O","c","t">>, <<"N","o","v">>, <<"D","e","c">> >>

UpperChars == <<"A","B","C","D","E","F","G","H","I","J","K","L","M",
                "N","O","P","Q","R","S","T","U","V","W","X","Y","Z">>
LowerChars == <<"a","b","c","d","e","f","g","h","i","j","k","l","m",
                "n","o","p","q","r","s","t","u","v","w","x","y","z">>

\* c | ('a' - 'A') for a letter c; any other character is left alone, which
\* time.match then rejects as not in 'a'..'z'
ToLower(c) ==
    IF \E i \in 1..26 : UpperChars[i] = c
    THEN LowerChars[CHOOSE i \in 1..26 : UpperChars[i] = c]
    ELSE c

IsLowerLetter(c) == \E i \in 1..26 : LowerChars[i] = c

\* time.match(s1, s2): equal up to the case of ASCII letters; Len(s1) = Len(s2)
match(s1, s2) ==
    \A i \in 1..Len(s1) :
        \/ s1[i] = s2[i]
        \/ /\ ToLower(s1[i]) = ToLower(s2[i])
           /\ IsLowerLetter(ToLower(s1[i]))

\* time.isDigit(s, i), i counted from 1
isDigit(s, i) == i <= Len(s) /\ \E n \in 1..10 : DigitChars[n] = s[i]

DigitVal(c) == (CHOOSE n \in 1..10 : DigitChars[n] = c) - 1

\* s[n+1:], the text after its first n characters
Drop(s, n) == SubSeq(s, n + 1, Len(s))

\* time.cutspace
RECURSIVE cutspace(_)
cutspace(s) == IF Len(s) > 0 /\ s[1] = " " THEN cutspace(Tail(s)) ELSE s

\* time.getnum(s, fixed): one or two digits, exactly two when fixed
getnum(s, fixed) ==
    IF ~isDigit(s, 1) THEN [ok |-> FALSE, n |-> 0, rest |-> s]
    ELSE IF ~isDigit(s, 2)
         THEN IF fixed THEN [ok |-> FALSE, n |-> 0, rest |-> s]
              ELSE [ok |-> TRUE, n |-> DigitVal(s[1]), rest |-> Drop(s, 1)]
    ELSE [ok |-> TRUE, n |-> DigitVal(s[1]) * 10 + DigitVal(s[2]),
          rest |-> Drop(s, 2)]

\* stdLongYear: exactly four characters, the first a digit, all of them
\* digits for time.atoi to accept them
getyear(s) ==
    IF Len(s) < 4 \/ ~isDigit(s, 1) THEN [ok |-> FALSE, n |-> 0, rest |-> s]
    ELSE IF ~(isDigit(s, 2) /\ isDigit(s, 3) /\ isDigit(s, 4))
         THEN [ok |-> FALSE, n |-> 0, rest |-> s]
    ELSE [ok |-> TRUE,
          n |-> DigitVal(s[1]) * 1000 + DigitVal(s[2]) * 100
                  + DigitVal(s[3]) * 10 + DigitVal(s[4]),
          rest |-> Drop(s, 4)]

\* time.lookup(shortMonthNames, val): the first name val starts with
lookup(s) ==
    LET hits == {i \in 1..12 : Len(s) >= 3 /\ match(SubSeq(s, 1, 3), shortMonthNames[i])}
    IN  IF hits = {} THEN [ok |-> FALSE, n |-> 0, rest |-> s]
        ELSE [ok |-> TRUE, n |-> CHOOSE i \in hits : \A j \in hits : i <= j,
              rest |-> Drop(s, 3)]

\* time.skip(value, prefix) for a prefix of one literal character: a space of
\* the layout stands for any run of spaces of the value, also the empty one
\* at the end of the value
skip(s, c) ==
    IF c = " "
    THEN IF Len(s) > 0 /\ s[1] # " " THEN [ok |-> FALSE, rest |-> s]
         ELSE [ok |-> TRUE, rest |-> cutspace(s)]
    ELSE IF Len(s) = 0 \/ s[1] # c THEN [ok |-> FALSE, rest |-> s]
         ELSE [ok |-> TRUE, rest |-> Tail(s)]

\* *time.ParseError: Value is the whole text handed to time.Parse
ParseError(value, msg) == [kind |-> "ParseError", text |-> value, msg |-> msg]

\* a time.Time, by its date and hour in its own location
Time(y, m, dd, h) == [year |-> y, month |-> m, day |-> dd, hour |-> h]

\* Time{}
ZeroTime == Time(1, 1, 1, 0)

StdChunks == {"2006", "01", "02", "2", "Jan"}

\* the loop of time.parse over the chunks of the layout from the i-th on;
\* y, m, dd are the fields read so far (month and day start at -1)
RECURSIVE parseFrom(_, _, _, _, _, _, _)
parseFrom(layout, i, value, avalue, y, m, dd) ==
    IF i > Len(layout)
    THEN IF Len(value) # 0
         THEN [t |-> ZeroTime, err |-> ParseError(avalue, "extra text")]
         ELSE LET month == IF m < 0 THEN 1 ELSE m
                  day   == IF dd < 0 THEN 1 ELSE dd
              IN  IF day < 1 \/ day > daysIn(month, y)
                  THEN [t |-> ZeroTime, err |-> ParseError(avalue, "day out of range")]
                  ELSE [t |-> Time(y, month, day, 0), err |-> nil]
    ELSE LET std == layout[i]
             bad == [t |-> ZeroTime, err |-> ParseError(avalue, "cannot parse")]
         IN  IF std \notin StdChunks
             THEN LET r == skip(value, std)
                  IN  IF ~r.ok THEN bad
                      ELSE parseFrom(layout, i + 1, r.rest, avalue, y, m, dd)
             ELSE IF std = "2006"
             THEN LET r == getyear(value)
                  IN  IF ~r.ok THEN bad
                      ELSE parseFrom(layout, i + 1, r.rest, avalue, r.n, m, dd)
             ELSE IF std = "01"
             THEN LET r == getnum(value, TRUE)
                  IN  IF ~r.ok THEN bad
                      ELSE IF r.n <= 0 \/ 12 < r.n
                      THEN [t |-> ZeroTime, err |-> ParseError(avalue, "month out of range")]
                      ELSE parseFrom(layout, i + 1, r.rest, avalue, y, r.n, dd)
             ELSE IF std = "Jan"
             THEN LET r == lookup(value)
                  IN  IF ~r.ok THEN bad
                      ELSE parseFrom(layout, i + 1, r.rest, avalue, y, r.n, dd)
             ELSE LET r == getnum(value, std = "02")
                  IN  IF ~r.ok THEN bad
                      ELSE parseFrom(layout, i + 1, r.rest, avalue, y, m, r.n)

\* time.Parse(layout, value) (Time, error)
TimeParse(layout, value) == parseFrom(layout, 1, value, value, 0, -1, -1)

---------------------------------------------------------------------------
(* Construction                                                            *)

OfSwapped(t) == Date(t.year, t.day, t.month)

\* func Of(t time.Time) Date
Of(t) == Date(t.year, t.month, t.day)

ParseKeepsPartial(layout, text) ==
    LET r == TimeParse(layout, text)
    IN  [date |-> Of(r.t), err |-> r.err]

\* func Parse(layout, d string) (Date, error)
Parse(layout, text) ==
    LET r == TimeParse(layout, text)
    IN  IF r.err # nil THEN [date |-> ZeroDate, err |-> r.err]
        ELSE [date |-> Of(r.t), err |-> nil]

---------------------------------------------------------------------------
(* Unmarshalling and scanning                                              *)

UnmarshalLayouts == <<LayoutISO, LayoutSlash, LayoutDMY>>

\* fmt.Errorf(`date: Unsupported format %s. Only ...`, b)
FormatError(b) == [kind |-> "FormatError", text |-> b, msg |-> "Unsupported format"]

\* fmt.Errorf("date: Unsupport scanning type %T", v)
UnsupportedTypeError(v) ==
    [kind |-> "UnsupportedTypeError", text |-> <<>>, msg |-> v.type]

\* the loop of UnmarshalText from the i-th layout on: every round assigns
\* Parse's Date to *d, also when Parse failed
RECURSIVE unmarshalFrom(_, _, _)
unmarshalFrom(cur, b, i) ==
    IF i > Len(UnmarshalLayouts) THEN [d |-> cur, err |-> FormatError(b)]
    ELSE LET r == Parse(UnmarshalLayouts[i], b)
         IN  IF r.err = nil THEN [d |-> r.date, err |-> nil]
             ELSE unmarshalFrom(r.date, b, i + 1)

UnmarshalTextISOOnly(cur, b) ==
    LET r == Parse(LayoutISO, b)
    IN  IF r.err = nil THEN [d |-> r.date, err |-> nil]
        ELSE [d |-> r.date, err |-> FormatError(b)]

\* func (d *Date) UnmarshalText(b []byte) error; cur is *d at the call
UnmarshalText(cur, b) == unmarshalFrom(cur, b, 1)

\* func (d *Date) Scan(v interface{}) error
Scan(cur, v) ==
    IF v.type = "time.Time" THEN [d |-> Of(v.val), err |-> nil]
    ELSE IF v.type = "[]byte" THEN UnmarshalText(cur, v.val)
    ELSE IF v.type = "string" THEN UnmarshalText(cur, v.val)
    ELSE [d |-> cur, err |-> UnsupportedTypeError(v)]

\* src/date.go: the loop of UnmarshalText over the layouts, into a local t
RECURSIVE DateGo_parseAny(_, _)
DateGo_parseAny(b, i) ==
    LET r == TimeParse(UnmarshalLayouts[i], b)
    IN  IF r.err = nil \/ i = Len(UnmarshalLayouts) THEN r
        ELSE DateGo_parseAny(b, i + 1)

\* src/date.go: func (d *Date) UnmarshalText(b []byte) error
DateGo_UnmarshalText(cur, b) ==
    LET r == DateGo_parseAny(b, 1)
    IN  IF r.err # nil THEN [d |-> cur, err |-> FormatError(b)]
        ELSE [d |-> Of(r.t), err |-> nil]

\* src/date.go: func (d *Date) Scan(v interface{}) error
DateGo_Scan(cur, v) ==
    IF v.type = "time.Time"
    THEN [d |-> Date(v.val.year, v.val.month, v.val.day), err |-> nil]
    ELSE IF v.type = "[]byte"
    THEN LET r == TimeParse(LayoutISO, v.val)
         IN  IF r.err # nil THEN [d |-> cur, err |-> r.err]
             ELSE [d |-> Date(r.t.year, r.t.month, r.t.day), err |-> nil]
    ELSE [d |-> cur, err |-> UnsupportedTypeError(v)]

---------------------------------------------------------------------------
(* Inputs                                                                  *)

\* year, month, day triples the input texts are written from: leap and
\* common years, months and days below, inside and above the calendar
TextYears  == {2000, 2009}
TextMonths == {0, 2, 11} \cup (12..MaxMonth)
TextDays   == {0, 1, 15} \cup (29..MaxDay)
TextFields == {Date(y, m, dd) : y \in TextYears, m \in TextMonths, dd \in TextDays}

\* the text of the fields f in a layout, written as Time.Format writes a
\* time: four-digit year, two-digit month and day, three-letter month name
\* (a field no time.Time can hold is written the same way; a month without
\* a name as "???")
RECURSIVE Render(_, _, _)
Render(layout, i, f) ==
    IF i > Len(layout) THEN <<>>
    ELSE LET std == layout[i]
             txt == IF std = "2006" THEN FmtZeroPad(f.Year, 4)
                    ELSE IF std = "01" THEN FmtZeroPad(f.Month, 2)
                    ELSE IF std = "02" THEN FmtZeroPad(f.Day, 2)
                    ELSE IF std = "2" THEN Signed(f.Day)
                    ELSE IF std = "Jan"
                         THEN IF f.Month \in 1..12 THEN shortMonthNames[f.Month]
                              ELSE <<"?", "?", "?">>
                    ELSE <<std>>
         IN  txt \o Render(layout, i + 1, f)

Format(layout, f) == Render(layout, 1, f)

\* texts that are no rendering of any date, and renderings time.Parse is
\* lenient about
OddTexts ==
    { <<"n","o","t","-","a","-","d","a","t","e">>,
      <<>>,
      <<"2","0","0","9","-","1","1","-","1","5","x">>,
      <<"2","0","0","9","-","1","1","-","1">>,
      <<"2","0","0","9","-","1","-","1","5">>,
      <<" ","2","0","0","9","-","1","1","-","1","5">>,
      <<"1","5"," "," ","N","o","v"," ","2","0","0","9">>,
      <<"1","5"," ","n","o","v"," ","2","0","0","9">>,
      <<"1","5"," ","N","o","v","e","m","b","e","r"," ","2","0","0","9">> }

Texts ==
    {Format(UnmarshalLayouts[i], f) : i \in 1..3, f \in TextFields} \cup OddTexts

\* the timestamps a driver hands to Scan: calendar dates with a time of day
Times ==
    {Time(f.Year, f.Month, f.Day, h) :
        f \in {g \in TextFields : IsValidDate(g)}, h \in {0, 23}}

\* the values a driver hands to Scan
ScanValues ==
    [type : {"[]byte", "string"}, val : Texts]
        \cup [type : {"time.Time"}, val : Times]
        \cup [type : {"int", "bool"}, val : {0}]

\* Date literals, with fields inside and outside the calendar
ValueYears  == {-1, 7, 2000, 2001, 2300}
ValueMonths == {1, 2, 3} \cup (12..MaxMonth)
ValueDays   == {1, 3, 28, 29} \cup (31..MaxDay)
ValueDates  ==
    {Date(y, m, dd) : y \in ValueYears, m \in ValueMonths, dd \in ValueDays}
        \cup {ZeroDate}

\* layouts and texts handed to Parse
ParseLayouts == {LayoutISO, LayoutSlash, LayoutDMY, LayoutMDY}
ParseFields  == TextFields \cup {Date(2017, 13, 1), Date(2001, 3, 5), Date(7, 1, 3)}
ParseTexts   ==
    {Format(l, f) : l \in ParseLayouts, f \in ParseFields} \cup OddTexts

---------------------------------------------------------------------------
(* The calls                                                               *)

NoCall == [op |-> "none"]

\* var d Date: the target of the unmarshalling and scanning calls
Init == d = ZeroDate /\ pc = "idle" /\ last = NoCall

\* d := Date{y, m, dd}: the receiver of the value methods
InitValue == d \in ValueDates /\ pc = "idle" /\ last = NoCall

\* the caller is done with the result of the last call
Return ==
    /\ pc = "done"
    /\ pc' = "idle"
    /\ last' = NoCall
    /\ UNCHANGED d

\* err := d.UnmarshalText(b)
CallUnmarshalText ==
    /\ pc = "idle"
    /\ \E b \in Texts :
          LET r == UnmarshalText(d, b)
          IN  /\ d' = r.d
              /\ last' = [op |-> "UnmarshalText", v |-> [type |-> "[]byte", val |-> b],
                          prev |-> d, err |-> r.err]
    /\ pc' = "done"

\* err := d.Scan(v)
CallScan ==
    /\ pc = "idle"
    /\ \E v \in ScanValues :
          LET r == Scan(d, v)
          IN  /\ d' = r.d
              /\ last' = [op |-> "Scan", v |-> v, prev |-> d, err |-> r.err]
    /\ pc' = "done"

\* src/date.go: err := d.UnmarshalText(b)
DateGo_CallUnmarshalText ==
    /\ pc = "idle"
    /\ \E b \in Texts :
          LET r == DateGo_UnmarshalText(d, b)
          IN  /\ d' = r.d
              /\ last' = [op |-> "DateGo_UnmarshalText",
                          v |-> [type |-> "[]byte", val |-> b],
                          prev |-> d, err |-> r.err]
    /\ pc' = "done"

\* src/date.go: err := d.Scan(v)
DateGo_CallScan ==
    /\ pc = "idle"
    /\ \E v \in ScanValues :
          LET r == DateGo_Scan(d, v)
          IN  /\ d' = r.d
              /\ last' = [op |-> "DateGo_Scan", v |-> v, prev |-> d, err |-> r.err]
    /\ pc' = "done"

Next ==
    \/ CallUnmarshalText
    \/ CallScan
    \/ DateGo_CallUnmarshalText
    \/ DateGo_CallScan
    \/ Return

Spec == Init /\ [][Next]_vars

\* d.After(t)
CallAfter ==
    /\ pc = "idle"
    /\ \E t \in ValueDates : last' = [op |-> "After", t |-> t, res |-> After(d, t)]
    /\ pc' = "done"
    /\ UNCHANGED d

\* d.Before(t)
CallBefore ==
    /\ pc = "idle"
    /\ \E t \in ValueDates : last' = [op |-> "Before", t |-> t, res |-> Before(d, t)]
    /\ pc' = "done"
    /\ UNCHANGED d

\* d.Equal(t)
CallEqual ==
    /\ pc = "idle"
    /\ \E t \in ValueDates : last' = [op |-> "Equal", t |-> t, res |-> Equal(d, t)]
    /\ pc' = "done"
    /\ UNCHANGED d

\* d.Sub(t)
CallSub ==
    /\ pc = "idle"
    /\ \E t \in ValueDates : last' = [op |-> "Sub", t |-> t, res |-> Sub(d, t)]
    /\ pc' = "done"
    /\ UNCHANGED d

\* d.String()
CallString ==
    /\ pc = "idle"
    /\ last' = [op |-> "String", res |-> String(d)]
    /\ pc' = "done"
    /\ UNCHANGED d

\* d.MarshalText()
CallMarshalText ==
    /\ pc = "idle"
    /\ last' = [op |-> "MarshalText", res |-> MarshalText(d).b, err |-> MarshalText(d).err]
    /\ pc' = "done"
    /\ UNCHANGED d

\* d.Value()
CallValue ==
    /\ pc = "idle"
    /\ last' = [op |-> "Value", res |-> Value(d).v, err |-> Value(d).err]
    /\ pc' = "done"
    /\ UNCHANGED d

NextValue ==
    \/ CallAfter
    \/ CallBefore
    \/ CallEqual
    \/ CallSub
    \/ CallString
    \/ CallMarshalText
    \/ CallValue
    \/ Return

\* the value methods, called on a Date literal
SpecValue == InitValue /\ [][NextValue]_vars

\* res, err := Parse(layout, text)
CallParse ==
    /\ pc = "idle"
    /\ \E layout \in ParseLayouts, text \in ParseTexts :
          LET r == Parse(layout, text)
          IN  last' = [op |-> "Parse", layout |-> layout, text |-> text,
                       res |-> r.date, err |-> r.err]
    /\ pc' = "done"
    /\ UNCHANGED d

NextParse ==
    \/ CallParse
    \/ Return

\* the package function Parse
SpecParse == Init /\ [][NextParse]_vars

---------------------------------------------------------------------------
(* What the claims are stated with                                         *)

\* (a.Year, a.Month, a.Day) is lexicographically greater than b's
LexGreater(a, b) ==
    \/ a.Year > b.Year
    \/ a.Year = b.Year /\ a.Month > b.Month
    \/ a.Year = b.Year /\ a.Month = b.Month /\ a.Day > b.Day

\* the zero-padded canonical form YYYY-MM-DD
Canonical(x) ==
    FmtZeroPad(x.Year, 4) \o <<"-">> \o FmtZeroPad(x.Month, 2)
        \o <<"-">> \o FmtZeroPad(x.Day, 2)

\* the calendar day after the calendar date x
NextDay(x) ==
    IF x.Day < daysIn(x.Month, x.Year) THEN Date(x.Year, x.Month, x.Day + 1)
    ELSE IF x.Month < 12 THEN Date(x.Year, x.Month + 1, 1)
    ELSE Date(x.Year + 1, 1, 1)

\* the number of the calendar date x in the proleptic Gregorian calendar,
\* counted in days
DayNumber(x) == daysSinceEpoch(x.Year) + daysBefore(x.Month)
                  + (IF isLeap(x.Year) /\ x.Month > 2 THEN 1 ELSE 0) + x.Day

Returned(ops) == pc = "done" /\ last.op \in ops

---------------------------------------------------------------------------
(* C1: After, Before and Equal are the strict total order of the          *)
(* lexicographic key (Year, Month, Day): d.After(t) iff d's key is         *)
(* greater, d.Before(t) iff t.After(d), d.Equal(t) iff the fields are      *)
(* equal, exactly one of the three holds, and After is transitive.         *)
C1_TotalOrder ==
    Returned({"After", "Before", "Equal"}) =>
        LET t == last.t IN
        /\ last.op = "After"  => last.res = LexGreater(d, t)
        /\ last.op = "Before" => last.res = LexGreater(t, d)
        /\ last.op = "Equal"  => last.res = (d = t)
        /\ After(d, t) = Before(t, d)
        /\ Cardinality({x \in {"a", "b", "e"} :
                \/ x = "a" /\ After(d, t)
                \/ x = "b" /\ Before(d, t)
                \/ x = "e" /\ Equal(d, t)}) = 1
        /\ Equal(d, d) /\ Equal(d, t) = Equal(t, d)
        /\ \A c \in ValueDates : After(d, t) /\ After(t, c) => After(d, c)

\* d.After(t) returned true for a later month of the same year with an
\* earlier day of the month
C1_Witness ==
    /\ Returned({"After"})
    /\ last.res = TRUE
    /\ d.Year = last.t.Year /\ d.Month > last.t.Month /\ d.Day < last.t.Day

(* C2: for every Date d, d.String() is the zero-padded canonical form      *)
(* YYYY-MM-DD (year zero-padded to at least 4 digits); MarshalText and     *)
(* Value return the same text and no error.  Stated here for calendar      *)
(* dates of the years 0 and later only.                                    *)
C2_CanonicalString ==
    Returned({"String", "MarshalText", "Value"}) /\ IsValidDate(d) /\ d.Year >= 0 =>
        /\ last.res = Canonical(d)
        /\ last.op # "String" => last.err = nil

(* C3: Parse with the canonical layout "2006-01-02" applied to d.String()  *)
(* succeeds and returns a Date equal to d.  Stated here for calendar dates *)
(* of the years 0..9999 only.                                              *)
C3_RoundTrip ==
    Returned({"String"}) /\ IsValidDate(d) /\ d.Year \in 0..9999 =>
        Parse(LayoutISO, last.res) = [date |-> d, err |-> nil]

(* C8: Sub is antisymmetric, d.Sub(t) = -(t.Sub(d)); d.Sub(d) = 0; and     *)
(* for consecutive calendar days t and d = t + 1, d.Sub(t) = 1.            *)
C8_SubAntisymmetric ==
    Returned({"Sub"}) =>
        LET t == last.t IN
        /\ last.res = -Sub(t, d)
        /\ d = t => last.res = 0
        /\ IsValidDate(t) /\ d = NextDay(t) => last.res = 1

\* 1 March 2000 minus 29 February 2000 returned 1
C8_Witness ==
    /\ Returned({"Sub"})
    /\ d = Date(2000, 3, 1) /\ last.t = Date(2000, 2, 29)
    /\ last.res = 1

(* C9: for every pair of calendar dates, however far apart, d.Sub(t) is    *)
(* exactly the number of days from t to d, with no saturation of the       *)
(* intermediate duration; so d.Sub(t) > 0 iff d.After(t) and d.Sub(t) = 0  *)
(* iff d.Equal(t).                                                         *)
C9_SubExact ==
    Returned({"Sub"}) /\ IsValidDate(d) /\ IsValidDate(last.t) =>
        /\ last.res = DayNumber(d) - DayNumber(last.t)
        /\ (last.res > 0) = After(d, last.t)
        /\ (last.res = 0) = Equal(d, last.t)

(* C7: Parse(layout, text) returns an error together with the zero Date   *)
(* whenever text does not match layout or describes an impossible calendar *)
(* date, the error carries the text, and when it returns no error the Date *)
(* is the year, month and day the text describes.                          *)
C7_ParseErrors ==
    Returned({"Parse"}) =>
        /\ last.err # nil =>
              /\ last.res = ZeroDate
              /\ last.err.kind = "ParseError"
              /\ last.err.text = last.text
        /\ last.err = nil => IsValidDate(last.res)
        /\ \A f \in ParseFields :
              /\ last.text = Format(last.layout, f) =>
                    IF IsValidDate(f) THEN last.err = nil /\ last.res = f
                    ELSE last.err # nil
              /\ \A l \in ParseLayouts \ {last.layout} :
                    last.text = Format(l, f) => last.err # nil

\* Parse("2006-01-02", "2017/13/01"), the call of TestParse, returned an
\* error and the zero Date
C7_Witness ==
    /\ Returned({"Parse"})
    /\ last.layout = LayoutISO
    /\ last.text = <<"2","0","1","7","/","1","3","/","0","1">>
    /\ last.err # nil /\ last.res = ZeroDate

\* Parse rejected a day beyond the length of its month
C7_WitnessDay ==
    /\ Returned({"Parse"})
    /\ last.layout = LayoutDMY
    /\ last.text = Format(LayoutDMY, Date(2009, 2, 29))
    /\ last.err # nil /\ last.err.msg = "day out of range"

(* C4: UnmarshalText tries the layouts YYYY-MM-DD, YYYY/MM/DD and          *)
(* DD Mon YYYY in that order and the first that matches wins: the three    *)
(* renderings of a calendar date all unmarshal to that Date, and a text    *)
(* matching none of the three returns an error that carries the text.      *)
C4_UnmarshalLayouts ==
    Returned({"UnmarshalText", "DateGo_UnmarshalText"}) =>
        LET b     == last.v.val
            first == {i \in 1..3 : /\ TimeParse(UnmarshalLayouts[i], b).err = nil
                                   /\ \A j \in 1..(i - 1) :
                                         TimeParse(UnmarshalLayouts[j], b).err # nil}
        IN  /\ \A f \in TextFields, i \in 1..3 :
                  IsValidDate(f) /\ b = Format(UnmarshalLayouts[i], f) =>
                      last.err = nil /\ d = f
            /\ first = {} =>
                  last.err.kind = "FormatError" /\ last.err.text = b
            /\ \A i \in first :
                  /\ last.err = nil
                  /\ LET t == TimeParse(UnmarshalLayouts[i], b).t
                     IN  d = Date(t.year, t.month, t.day)

\* "15 Nov 2009", which only the third layout matches, unmarshalled to
\* Date{2009, November, 15}
C4_Witness ==
    /\ Returned({"UnmarshalText"})
    /\ last.v.val = <<"1","5"," ","N","o","v"," ","2","0","0","9">>
    /\ last.err = nil
    /\ d = Date(2009, 11, 15)

(* C5: Scan dispatches on the type of its input: a timestamp sets the      *)
(* target to Of(timestamp); a byte sequence and a string give exactly the  *)
(* outcome of UnmarshalText on that text (same error or success, same      *)
(* target), accepting all three layouts; any other type returns an error   *)
(* naming the type.                                                        *)
C5_ScanDispatch ==
    Returned({"Scan", "DateGo_Scan"}) =>
        LET v == last.v
            u == IF last.op = "Scan" THEN UnmarshalText(last.prev, v.val)
                 ELSE DateGo_UnmarshalText(last.prev, v.val)
        IN  /\ v.type = "time.Time" => last.err = nil /\ d = Of(v.val)
            /\ v.type \in {"[]byte", "string"} =>
                  (last.err = nil) = (u.err = nil) /\ d = u.d
            /\ v.type \notin {"time.Time", "[]byte", "string"} =>
                  last.err.kind = "UnsupportedTypeError" /\ last.err.msg = v.type

(* C6: whenever UnmarshalText returns an error, the target Date holds      *)
(* exactly the value it held before the call.                              *)
C6_FailedUnmarshalKeepsTarget ==
    Returned({"UnmarshalText", "DateGo_UnmarshalText"}) /\ last.err # nil =>
        d = last.prev

(* C10: from the zero Date, after any sequence of UnmarshalText and Scan   *)
(* calls, failed or not, the target holds the zero Date or a calendar      *)
(* date; and after a successful call it holds the date the input of that   *)
(* call describes, whatever it held before.                                *)
C10_TargetValid ==
    /\ d = ZeroDate \/ IsValidDate(d)
    /\ Returned({"UnmarshalText", "Scan", "DateGo_UnmarshalText", "DateGo_Scan"})
         /\ last.err = nil =>
          LET v == last.v IN
          /\ v.type = "time.Time" =>
                d = Date(v.val.year, v.val.month, v.val.day)
          /\ v.type # "time.Time" =>
                /\ \A f \in TextFields, i \in 1..3 :
                      v.val = Format(UnmarshalLayouts[i], f) => d = f
                /\ \E i \in 1..3 :
                      LET r == TimeParse(UnmarshalLayouts[i], v.val)
                      IN  r.err = nil /\ d = Date(r.t.year, r.t.month, r.t.day)

\* a successful call replaced an earlier calendar date by another one
C10_Witness ==
    /\ Returned({"UnmarshalText", "Scan"})
    /\ last.err = nil
    /\ last.prev # ZeroDate
    /\ d # last.prev

===========================================================================
